---- MODULE Spec2Model ----
(***************************************************************************)
(* Model of the trade-scraper polling loop (src/main.py), its two feeds    *)
(* (src/active_trades_scraper.py, src/trade_updates_scraper.py), the page  *)
(* visitor (src/trade_parser.py), the persisted state (src/state.py) and   *)
(* the venue handlers (src/hyperliquid_handler.py, src/bybit_handler.py).  *)
(*                                                                         *)
(* Python values are modelled as follows.  A dict is a function whose      *)
(* domain is its set of string keys, so a key that is written as           *)
(* "stop loss" and read as "stop_loss" is a missing key.  None is NoneN    *)
(* for numbers, NoneS for strings and NoneSym for symbols; a parse that    *)
(* returns None is NoneTD.  A symbol "BTC/USDT" is the pair                *)
(* <<"BTC", "USDT">>.  A float average is the pair <<sum, count>>.         *)
(***************************************************************************)
EXTENDS Integers, Sequences, FiniteSets, TLC

VARIABLES
    state,        \* the in-memory state dict of main()
    disk,         \* the content of storage/state.json
    pc,           \* where main() is: "loop", "create_batch", "updates", "update_batch", "exited"
    stop_signal,  \* main.stop_signal
    queue,        \* the URLs update_active_trades_from_urls has still to visit
    crud,         \* the crud_type of the batch in progress
    pending_id,   \* msg_ids[-1] of the update batch in progress
    clients,      \* hyperliquid_clients.clients: the subaccount numbers with a client
    feedA,        \* the blocks visible in #active-trades
    feedU,        \* the messages visible in #trade-updates
    next_id,      \* the id the next message posted in #trade-updates gets
    changed,      \* history: #active-trades changed since the last scan (or none ran)
    lastScan,     \* history: what the last create-feed scan computed
    last,         \* history: the last handler dispatch of the batch in progress
    createOk,     \* history: the URLs whose CREATE the handler reported as a success
    exec,         \* one run of place_orders and set_stop_loss_take_profit, task by task
    probe         \* one call of an executor or scraper function on its own: its arguments and what it did

vars == <<state, disk, pc, stop_signal, queue, crud, pending_id, clients,
          feedA, feedU, next_id, changed, lastScan, last, createOk, exec, probe>>

---------------------------------------------------------------------------
(* Bounds of the model *)

MaxBlocks == 2      \* blocks visible in #active-trades at once
MaxMsgs == 2        \* messages ever posted in #trade-updates

---------------------------------------------------------------------------
(* Python's None, per type, and truthiness *)

NoneN == -1
NoneS == "None"
NoneSym == <<>>
NoneTD == [none |-> TRUE]

IsNone(td) == "none" \in DOMAIN td

TruthyN(x) == x # NoneN /\ x # 0
TruthyS(s) == s # NoneS /\ s # ""
TruthyL(l) == Len(l) > 0

GetN(d, k) == IF k \in DOMAIN d THEN d[k] ELSE NoneN
GetS(d, k) == IF k \in DOMAIN d THEN d[k] ELSE NoneS
GetL(d, k) == IF k \in DOMAIN d THEN d[k] ELSE <<>>
GetSym(d, k) == IF k \in DOMAIN d THEN d[k] ELSE NoneSym

RECURSIVE SumSeq(_)
SumSeq(s) == IF s = <<>> THEN 0 ELSE Head(s) + SumSeq(Tail(s))

RECURSIVE SeqToSet(_)
SeqToSet(s) == IF s = <<>> THEN {} ELSE {Head(s)} \cup SeqToSet(Tail(s))

---------------------------------------------------------------------------
(* config.py *)

TRADER_1_NAME == "Trader1"
TRADER_2_NAME == "Trader2"
TRADER_3_NAME == "Trader3"
FOLLOWED_TRADERS == {TRADER_1_NAME, TRADER_2_NAME, TRADER_3_NAME}
TRADER_SUBACCOUNT_MAP ==
    (TRADER_1_NAME :> 1) @@ (TRADER_2_NAME :> 2) @@ (TRADER_3_NAME :> 3)

---------------------------------------------------------------------------
(* The inputs: URLs, message texts, feed blocks *)

URLS == {"u1", "u2"}

BTC == <<"BTC", "USDT">>

\* What the regular expressions of extract_trade_fields_from_text match in
\* a message text: trader is the text before "APP" (NoneS: no "APP").
Text(tr, sym, dir, ents, sl, tp, cl) ==
    [trader |-> tr, symbol |-> sym, direction |-> dir, entries |-> ents,
     stop |-> sl, tp |-> tp, closed |-> cl]

TextFull     == Text("Trader1", BTC, "long", <<100, 98>>, 95, 110, NoneN)
TextStop90   == Text("Trader1", BTC, "long", <<100, 98>>, 90, 110, NoneN)
TextClosed   == Text("Trader1", BTC, "long", <<100, 98>>, 95, 110, 105)
TextStranger == Text("Stranger", BTC, "long", <<100, 98>>, 95, 110, NoneN)
TextNoStop   == Text("Trader1", BTC, "long", <<100>>, NoneN, 110, NoneN)

TEXTS == {TextFull, TextStop90, TextClosed, TextStranger, TextNoStop}

\* The texts the polling loop is run against
LoopTexts == {TextFull, TextStop90, TextStranger, TextNoStop}

\* A block of #active-trades: the header's trader ("" when the block has no
\* header), the link and the aria-labels of the emoji images of its <li>.
\* The message behind a URL keeps its author; its reactions change.
Block(u, tr, em) == [url |-> u, trader |-> tr, emojis |-> em]

HEADER == ("u1" :> "Trader1") @@ ("u2" :> "Stranger")
EMOJIS == {<<>>, <<"green">>, <<"green", ":ChromaCheck2:">>}
BLOCKS == {Block("u1", HEADER["u1"], em) : em \in EMOJIS}
          \cup {Block("u2", HEADER["u2"], <<"green">>)}

\* What a message of #trade-updates links to (NoneS: it has no link)
LINKS == {"u1", NoneS}


---------------------------------------------------------------------------
(* trade_parser.py: extract_trade_fields_from_text, parse_trade_html *)

\* all([symbol, stop, tp, direction, avg_entry]): a zero price or a zero
\* average is as false as a missing one.
extract_trade_fields_from_text(text) ==
    LET trader    == IF text.trader # NoneS THEN text.trader ELSE "Unknown"
        entries   == text.entries
        has_avg   == TruthyL(entries) /\ SumSeq(entries) # 0
        avg_entry == <<SumSeq(entries), Len(entries)>>
    IN  IF ~(text.symbol # NoneSym /\ TruthyN(text.stop) /\ TruthyN(text.tp)
             /\ TruthyS(text.direction) /\ has_avg)
        THEN NoneTD
        ELSE ("trader" :> trader) @@ ("symbol" :> text.symbol)
             @@ ("direction" :> text.direction) @@ ("entries" :> entries)
             @@ ("avg_entry" :> avg_entry) @@ ("stop loss" :> text.stop)
             @@ ("take profit" :> text.tp) @@ ("closed price" :> text.closed)
             @@ ("multi_entry" :> (Len(entries) > 1))

parse_trade_html(text) == extract_trade_fields_from_text(text)

---------------------------------------------------------------------------
(* state.py *)

default_state ==
    [last_trade_updates_message_id |-> NoneN,
     active_trades |-> << >>,
     all_seen_urls |-> {}]

\* json.dump of the whole dict: the file holds what the dict held.
save_state(st) == st

\* state.json after open(STATE, "w") has emptied it and before json.dump
\* has written all of the document: json.load of it raises, main() ends at
\* line 36 before the loop.
TornFile == [torn |-> TRUE]

\* a state file that is not read back
StateForgotten(file) == default_state

\* json.load of the file (a missing file is default_state, which is what
\* the model's disk starts as).
load_state(file) == file

InLedger(st, u) == u \in DOMAIN st.active_trades

LedgerEntry(st, u) == IF InLedger(st, u) THEN st.active_trades[u] ELSE NoneTD

\* active_trades[url] = trade_data
LedgerPut(st, u, td) ==
    [st EXCEPT !.active_trades =
        [k \in (DOMAIN st.active_trades) \cup {u} |->
            IF k = u THEN td ELSE st.active_trades[k]]]

\* trade_parser.py lines 59-62: the handler is awaited, its return value is
\* dropped, and the record is written.
LedgerAfterHandler(st, u, td, r) == LedgerPut(st, u, td)

---------------------------------------------------------------------------
(* active_trades_scraper.py: the pure parts of scrape_and_parse_active_trades *)

EMOJI_MAP == ("green" :> "futures_long") @@ ("red" :> "futures_short")
             @@ ("blue" :> "spot")

\* lines 21-32: every link of every block, whatever its header or emojis
RECURSIVE current_trade_urls(_)
current_trade_urls(blocks) ==
    IF blocks = <<>> THEN {}
    ELSE {Head(blocks).url} \cup current_trade_urls(Tail(blocks))

\* the URLs that are in exactly one of the two sets
SymDiff(a, b) == (a \ b) \cup (b \ a)

\* the stored set left as it was
SeenKept(current, previous) == previous

\* line 38
NewTradeUrls(current, previous) == current \ previous

\* line 41: the stored list is replaced by the current set
SeenAfterScan(current, previous) == current

\* lines 87-94: the loop over the emoji labels
RECURSIVE EmojiScan(_, _, _)
EmojiScan(es, trade_type, filled) ==
    IF es = <<>> THEN [trade_type |-> trade_type, filled |-> filled]
    ELSE IF Head(es) = ":ChromaCheck2:" THEN EmojiScan(Tail(es), trade_type, TRUE)
    ELSE IF Head(es) \in DOMAIN EMOJI_MAP
         THEN EmojiScan(Tail(es), EMOJI_MAP[Head(es)], filled)
    ELSE EmojiScan(Tail(es), trade_type, filled)

\* the filters of a block without the look into active_trades
SelectedLedgerBlind(b, new_trade_urls, st) ==
    LET e == EmojiScan(b.emojis, NoneS, FALSE)
    IN  /\ b.trader # ""
        /\ b.trader \in FOLLOWED_TRADERS
        /\ b.url \in new_trade_urls
        /\ ~(e.filled \/ e.trade_type = NoneS \/ e.trade_type = "spot")

\* lines 58-97 for one block: whether its link goes to trade_urls
Selected(b, new_trade_urls, st) ==
    LET e == EmojiScan(b.emojis, NoneS, FALSE)
    IN  /\ b.trader # ""
        /\ b.trader \in FOLLOWED_TRADERS
        /\ b.url \in new_trade_urls
        /\ ~InLedger(st, b.url)
        /\ ~(e.filled \/ e.trade_type = NoneS \/ e.trade_type = "spot")

\* lines 51-99
RECURSIVE trade_urls_of(_, _, _)
trade_urls_of(blocks, new_trade_urls, st) ==
    IF blocks = <<>> THEN <<>>
    ELSE (IF Selected(Head(blocks), new_trade_urls, st)
          THEN <<Head(blocks).url>> ELSE <<>>)
         \o trade_urls_of(Tail(blocks), new_trade_urls, st)

---------------------------------------------------------------------------
(* trade_updates_scraper.py: extract_new_trade_updates *)

\* A message of #trade-updates: [id, link], link = NoneS when it has none.
RECURSIVE ExtractFrom(_, _, _)
ExtractFrom(msgs, last_seen_id, found_anchor) ==
    IF msgs = <<>> THEN [urls |-> <<>>, ids |-> <<>>]
    ELSE LET m    == Head(msgs)
             rest == ExtractFrom(Tail(msgs), last_seen_id,
                                 found_anchor \/ m.id = last_seen_id)
         IN  IF found_anchor /\ m.link # NoneS
             THEN [urls |-> <<m.link>> \o rest.urls, ids |-> <<m.id>> \o rest.ids]
             ELSE rest

\* every link from the first message on, the anchor included
extract_from_anchor(msgs, last_seen_id) ==
    ExtractFrom(msgs, IF msgs = <<>> THEN last_seen_id ELSE Head(msgs).id, FALSE)

extract_new_trade_updates(msgs, last_seen_id) == ExtractFrom(msgs, last_seen_id, FALSE)

\* line 84: the crud_type check_trade_updates passes on
UpdateIntent == "UPDATER"

\* every offered URL, with or without a ledger record
all_updates_of(urls, st) == urls

\* lines 76-81: how many times record_event(events_counter,
\* "non-actionable_updates") is called
RECURSIVE non_actionable_updates(_, _)
non_actionable_updates(urls, st) ==
    IF urls = <<>> THEN 0
    ELSE (IF InLedger(st, Head(urls)) THEN 0 ELSE 1)
         + non_actionable_updates(Tail(urls), st)

\* lines 74-82
RECURSIVE actionable_updates_of(_, _)
actionable_updates_of(urls, st) ==
    IF urls = <<>> THEN <<>>
    ELSE (IF InLedger(st, Head(urls)) THEN <<Head(urls)>> ELSE <<>>)
         \o actionable_updates_of(Tail(urls), st)

---------------------------------------------------------------------------
(* The venue as one handler call meets it.  An outcome says, for the calls *)
(* the handler may make, how each ends once with_retry is done with it:    *)
(*   placed   the indexes of the entry prices whose limit order came back  *)
(*   amounts  whether the orders that came back carry an 'amount'          *)
(*   sl, tp   whether the stop / take-profit order came back               *)
(*   open     how many resting orders the open-orders query lists          *)
(*   fetched  whether the open-orders query was answered (get_open_orders  *)
(*            returns [] when it was not)                                  *)
(*   cancelled whether every cancel_order came back (a failed one is       *)
(*            caught and logged by cancel_orders)                          *)
(*   szi      the position size the position query gives (NoneN: none)     *)
(*   close    whether the market close order came back                     *)

MaxEntries == 2     \* entry prices of a signal
MaxOpen == 1        \* resting orders the venue lists for a symbol

\* The outcomes the handlers are run against: none, the first or all of the
\* entry orders come back; the venue either answers everything else (stop
\* orders, queries, the close) or fails all of it.
VenueOutcomes ==
    {[placed |-> p, amounts |-> b, sl |-> b, tp |-> b,
      open |-> IF b THEN MaxOpen ELSE 0, fetched |-> b, cancelled |-> b /\ c,
      szi |-> IF b THEN 5 ELSE NoneN,
      close |-> b] : p \in {{}, {1}, 1..MaxEntries}, b \in BOOLEAN, c \in BOOLEAN}

\* One call to the venue client, with the arguments that matter: price is
\* the number passed as price (NoneN when a list was passed), prices the
\* list passed where a price is expected.
Call(op, sym, side, price, prices, reduce_only, trigger) ==
    [op |-> op, symbol |-> sym, side |-> side, price |-> price,
     prices |-> prices, reduce_only |-> reduce_only, trigger |-> trigger]

\* What a handler hands back: its return value, whether it raised, and the
\* venue calls it made, in order.
Result(success, raised, calls) ==
    [success |-> success, raised |-> raised, calls |-> calls]

---------------------------------------------------------------------------
(* hyperliquid_executor.py *)

\* HYPERLIQUID_SYMBOL_OVERRIDES is empty; "/USDT" becomes "/USDC:USDC"
convert_symbol(symbol) ==
    IF Len(symbol) = 2 /\ symbol[2] = "USDT"
    THEN <<symbol[1], "USDC:USDC">> ELSE symbol

\* place_orders line 88
order_side_of(side) == IF side = "long" THEN "buy" ELSE "sell"

\* the side of the orders that open the position, taken for the stops
SameSide(side) == order_side_of(side)

\* set_stop_loss_take_profit line 282
sl_side_of(side) == IF side = "long" THEN "sell" ELSE "buy"

RECURSIVE LimitCalls(_, _, _)
LimitCalls(hl_symbol, order_side, entries) ==
    IF entries = <<>> THEN <<>>
    ELSE <<Call("create_limit_order", hl_symbol, order_side, Head(entries),
                <<>>, FALSE, "")>>
         \o LimitCalls(hl_symbol, order_side, Tail(entries))

RECURSIVE Successful(_, _, _)
Successful(entries, placed, i) ==
    IF i > Len(entries) THEN <<>>
    ELSE (IF i \in placed THEN <<entries[i]>> ELSE <<>>)
         \o Successful(entries, placed, i + 1)

\* place_orders: sum(entries) / len(entries) and 10.0 / avg_entry raise
\* ZeroDivisionError before any order; then one order per entry price, and
\* the orders that came back (the prices they were placed at).
place_orders(symbol, side, entries, stop_loss, out) ==
    LET hl_symbol  == convert_symbol(symbol)
        order_side == order_side_of(side)
    IN  IF Len(entries) = 0 \/ SumSeq(entries) = 0
        THEN [raised |-> TRUE, orders |-> <<>>, calls |-> <<>>]
        ELSE [raised |-> FALSE,
              orders |-> Successful(entries, out.placed, 1),
              calls  |-> LimitCalls(hl_symbol, order_side, entries)]

RECURSIVE CancelCalls(_, _)
CancelCalls(hl_symbol, n) ==
    IF n = 0 THEN <<>>
    ELSE <<Call("cancel_order", hl_symbol, "", NoneN, <<>>, FALSE, "")>>
         \o CancelCalls(hl_symbol, n - 1)

\* cancel_orders without a side filter: the open-orders query, then one
\* cancel per listed order
cancel_orders(symbol, out) ==
    <<Call("openOrders", convert_symbol(symbol), "", NoneN, <<>>, FALSE, "")>>
    \o CancelCalls(convert_symbol(symbol), out.open)

get_position_info(symbol) ==
    <<Call("clearinghouseState", convert_symbol(symbol), "", NoneN, <<>>, FALSE, "")>>

\* lines 299-311 and 323-335: client.create_order with type='limit', the
\* trigger price and type in params, and reduceOnly
TriggerOrder(hl_symbol, sl_side, price, prices, trigger) ==
    [op |-> "create_order", symbol |-> hl_symbol, side |-> sl_side, price |-> price,
     prices |-> prices, reduce_only |-> TRUE, trigger |-> trigger, type |-> "limit"]

\* set_stop_loss_take_profit as the handler calls it: take_profit is the
\* list tp_to_use, passed on as the price of the take-profit order.
set_stop_loss_take_profit(symbol, side, stop_loss, take_profit, out) ==
    LET hl_symbol == convert_symbol(symbol)
        sl_side   == sl_side_of(side)
        sl_calls  == IF TruthyN(stop_loss)
                     THEN <<TriggerOrder(hl_symbol, sl_side, stop_loss, <<>>,
                                         IF side = "short" THEN "tp" ELSE "sl")>>
                     ELSE <<>>
        tp_calls  == IF TruthyL(take_profit)
                     THEN <<TriggerOrder(hl_symbol, sl_side, NoneN, take_profit,
                                         IF side = "short" THEN "sl" ELSE "tp")>>
                     ELSE <<>>
    IN  [sl_order |-> TruthyN(stop_loss) /\ out.sl,
         tp_order |-> TruthyL(take_profit) /\ out.tp,
         calls    |-> sl_calls \o tp_calls]

\* lines 388-396: client.create_market_order with the size of the
\* position as amount and reduceOnly
MarketClose(hl_symbol, side, amount) ==
    [op |-> "create_market_order", symbol |-> hl_symbol, side |-> side, price |-> NoneN,
     prices |-> <<>>, reduce_only |-> TRUE, trigger |-> "", type |-> "market",
     amount |-> amount]

\* close_position: cancel, query the position, close it at market
close_position(symbol, out) ==
    LET hl_symbol == convert_symbol(symbol)
        before    == cancel_orders(symbol, out) \o get_position_info(symbol)
    IN  IF out.szi # NoneN /\ out.szi # 0
        THEN [success |-> out.close,
              calls |-> before \o
                  <<Call("fetch_ticker", hl_symbol, "", NoneN, <<>>, FALSE, ""),
                    MarketClose(hl_symbol, IF out.szi > 0 THEN "sell" ELSE "buy",
                                IF out.szi > 0 THEN out.szi ELSE 0 - out.szi)>>]
        ELSE [success |-> TRUE, calls |-> before]

---------------------------------------------------------------------------
(* hyperliquid_clients.py *)

\* whether get_client_for_trader finds a client (cl: the initialized
\* subaccount numbers)
get_client_for_trader(trader_name, cl) ==
    /\ trader_name \in DOMAIN TRADER_SUBACCOUNT_MAP
    /\ TRADER_SUBACCOUNT_MAP[trader_name] \in cl

---------------------------------------------------------------------------
(* hyperliquid_handler.py *)

\* The take-profit order that came back is a dict; the loop at lines
\* 111-113 iterates over its keys and calls .get on a str, which raises
\* inside the try of handle_create_trade: the function returns False.
handle_create_trade(symbol, side, entries, stop_loss, take_profit_list, out) ==
    IF ~TruthyL(entries) \/ ~TruthyN(stop_loss) \/ ~TruthyS(side)
    THEN Result(FALSE, FALSE, <<>>)
    ELSE LET po == place_orders(symbol, side, entries, stop_loss, out)
             st == set_stop_loss_take_profit(symbol, side, stop_loss,
                                             take_profit_list, out)
         IN  IF po.raised THEN Result(FALSE, FALSE, <<>>)
             ELSE IF ~TruthyL(po.orders) THEN Result(FALSE, FALSE, po.calls)
             ELSE Result(~st.tp_order, FALSE, po.calls \o st.calls)

handle_update_trade(symbol, side, entries, stop_loss, take_profit_list, out) ==
    LET canceled == cancel_orders(symbol, out)
        replace  == TruthyL(entries) /\ TruthyS(side) /\ TruthyN(stop_loss)
        po       == place_orders(symbol, side, entries, stop_loss, out)
        placed   == replace /\ TruthyL(po.orders) /\ out.amounts
        query    == IF placed THEN <<>> ELSE get_position_info(symbol)
        sized    == placed \/ TruthyN(out.szi)
        st       == set_stop_loss_take_profit(symbol, side, stop_loss,
                                              take_profit_list, out)
        stops    == IF (TruthyN(stop_loss) \/ TruthyL(take_profit_list))
                       /\ TruthyS(side) /\ sized
                    THEN st.calls ELSE <<>>
    IN  IF replace /\ po.raised THEN Result(FALSE, TRUE, canceled)
        ELSE Result(TRUE, FALSE,
                    canceled \o (IF replace THEN po.calls ELSE <<>>) \o query \o stops)

handle_close_trade(symbol, out) ==
    LET cp == close_position(symbol, out)
    IN  Result(cp.success, FALSE, cp.calls)

\* handle_trade_update of the Hyperliquid handler, the one trade_parser.py
\* imports.  An exception of the routed operation is caught (lines 119-121).
handle_trade_update(trade_data, crud_type, cl, out) ==
    LET trader_name      == GetS(trade_data, "trader")
        symbol           == GetSym(trade_data, "symbol")
        side             == GetS(trade_data, "side")
        entries          == GetL(trade_data, "entries")
        stop_loss        == GetN(trade_data, "stop_loss")
        take_profit      == GetN(trade_data, "take_profit")
        take_profit_list == GetL(trade_data, "take_profit_list")
        closed_price     == GetN(trade_data, "closed_price")
        tp_to_use        == IF TruthyL(take_profit_list) THEN take_profit_list
                            ELSE IF TruthyN(take_profit) THEN <<take_profit>>
                            ELSE <<>>
        routed ==
            IF crud_type = "CREATE"
            THEN handle_create_trade(symbol, side, entries, stop_loss, tp_to_use, out)
            ELSE IF crud_type = "UPDATE"
            THEN handle_update_trade(symbol, side, entries, stop_loss, tp_to_use, out)
            ELSE IF crud_type = "CLOSE" \/ TruthyN(closed_price)
            THEN handle_close_trade(symbol, out)
            ELSE Result(FALSE, FALSE, <<>>)
    IN  IF trader_name \notin FOLLOWED_TRADERS THEN Result(FALSE, FALSE, <<>>)
        ELSE IF ~get_client_for_trader(trader_name, cl) THEN Result(FALSE, FALSE, <<>>)
        ELSE IF symbol = NoneSym THEN Result(FALSE, FALSE, <<>>)
        ELSE Result(routed.success /\ ~routed.raised, FALSE, routed.calls)

---------------------------------------------------------------------------
(* bybit_clients.py, order_executor.py, bybit_handler.py *)

TRADER_TO_CLIENT == {"Perdu", "$Silla"}

TRACKED == <<"entries", "stop_loss", "take_profit", "closed_price">>

\* old_trade.get(key) != trade_data.get(key)
Differs(old_trade, trade_data, key) ==
    IF key = "entries"
    THEN (key \in DOMAIN old_trade) # (key \in DOMAIN trade_data)
         \/ GetL(old_trade, key) # GetL(trade_data, key)
    ELSE GetN(old_trade, key) # GetN(trade_data, key)

\* bybit_handler.py lines 43-47: the keys of diffs
diffs(old_trade, trade_data) ==
    {TRACKED[i] : i \in {j \in 1..Len(TRACKED) : Differs(old_trade, trade_data, TRACKED[j])}}

RECURSIVE BybitLimitCalls(_, _, _)
BybitLimitCalls(symbol, side, entries) ==
    IF entries = <<>> THEN <<>>
    ELSE <<Call("place_order", symbol, side, Head(entries), <<>>, FALSE, "")>>
         \o BybitLimitCalls(symbol, side, Tail(entries))

\* place_limit_order: len(entries) raises for no entries, and
\* calculate_position_size raises when an entry price equals the stop loss
\* or there is no stop loss; both happen outside the try that guards the
\* order itself, the second after the orders of the earlier entries.
place_limit_order(symbol, side, entries, stop_loss) ==
    LET bad == {i \in 1..Len(entries) : entries[i] = stop_loss}
        upto == IF bad = {} THEN Len(entries)
                ELSE (CHOOSE i \in bad : \A j \in bad : i <= j) - 1
    IN  IF Len(entries) = 0 \/ stop_loss = NoneN
        THEN [raised |-> TRUE, calls |-> <<>>]
        ELSE [raised |-> bad # {},
              calls |-> BybitLimitCalls(symbol, side, SubSeq(entries, 1, upto))]

RECURSIVE BybitCancelCalls(_, _)
BybitCancelCalls(symbol, n) ==
    IF n = 0 THEN <<>>
    ELSE <<Call("cancel_order", symbol, "", NoneN, <<>>, FALSE, "")>>
         \o BybitCancelCalls(symbol, n - 1)

\* out.open counts the listed orders that pass the filter of line 14
cancel_existing_limit_orders(symbol, side, out) ==
    <<Call("get_open_orders", symbol, "", NoneN, <<>>, FALSE, "")>>
    \o BybitCancelCalls(symbol, out.open)

set_trading_stop(symbol, stop_loss, take_profit) ==
    <<Call("set_trading_stop", symbol, "", stop_loss, <<take_profit>>, FALSE, "")>>

\* side.strip().upper(), for the spellings of a side
StripUpper(side) ==
    CASE side \in {"long", "Long", " long"} -> "LONG"
      [] side \in {"short", "Short", "short "} -> "SHORT"
      [] side \in {"buy", "Buy", "BUY"} -> "BUY"
      [] side \in {"sell", "Sell", "SELL", "sell "} -> "SELL"
      [] OTHER -> side

\* the side of the position itself
position_side(side) == StripUpper(side)

\* order_executor.py line 63
opposite_side_of(side) == IF StripUpper(side) = "SELL" THEN "BUY" ELSE "SELL"

\* order_executor.py lines 64-71: a market order for the whole size
BybitMarketClose(symbol, opposite_side, size) ==
    [op |-> "place_order", symbol |-> symbol, side |-> opposite_side, price |-> NoneN,
     prices |-> <<>>, reduce_only |-> TRUE, trigger |-> "", type |-> "Market",
     amount |-> size]

\* out.szi is the size the position query gives; a failed query raises
\* inside the try
bybit_close_position(symbol, side, out) ==
    <<Call("get_positions", symbol, "", NoneN, <<>>, FALSE, "")>>
    \o (IF out.szi # NoneN /\ out.szi > 0
        THEN <<BybitMarketClose(symbol, opposite_side_of(side), out.szi)>>
        ELSE <<>>)

\* handle_trade_update of bybit_handler.py; it returns None on every path
bybit_handle_trade_update(trade_data, crud_type, trade_url, st, out) ==
    LET symbol       == GetSym(trade_data, "symbol")
        side         == GetS(trade_data, "side")
        entries      == GetL(trade_data, "entries")
        stop_loss    == GetN(trade_data, "stop_loss")
        take_profit  == GetN(trade_data, "take_profit")
        trader       == GetS(trade_data, "trader")
        old_trade    == LedgerEntry(st, trade_url)
        d            == diffs(old_trade, trade_data)
        po           == place_limit_order(symbol, side, entries, stop_loss)
        stop_calls   == set_trading_stop(symbol, stop_loss, take_profit)
    IN  IF "symbol" \notin DOMAIN trade_data \/ "side" \notin DOMAIN trade_data
        THEN Result(FALSE, TRUE, <<>>)
        ELSE IF trader \notin TRADER_TO_CLIENT THEN Result(FALSE, FALSE, <<>>)
        ELSE IF crud_type = "CREATE"
        THEN IF ~TruthyL(entries) \/ ~TruthyN(stop_loss) THEN Result(FALSE, FALSE, <<>>)
             ELSE IF po.raised THEN Result(FALSE, TRUE, po.calls)
             ELSE Result(FALSE, FALSE, po.calls \o stop_calls)
        ELSE IF crud_type = "UPDATE"
        THEN IF IsNone(old_trade) THEN Result(FALSE, FALSE, <<>>)
             ELSE IF d = {} THEN Result(FALSE, FALSE, <<>>)
             ELSE LET c1 == IF "entries" \in d
                            THEN cancel_existing_limit_orders(symbol, side, out)
                            ELSE <<>>
                      c2 == IF "entries" \in d THEN po.calls ELSE <<>>
                      c3 == IF "stop_loss" \in d \/ "take_profit" \in d
                            THEN stop_calls ELSE <<>>
                      c4 == IF "closed_price" \in d
                            THEN bybit_close_position(symbol, side, out) ELSE <<>>
                  IN  IF "entries" \in d /\ po.raised
                      THEN Result(FALSE, TRUE, c1 \o po.calls)
                      ELSE Result(FALSE, FALSE, c1 \o c2 \o c3 \o c4)
        ELSE Result(FALSE, FALSE, <<>>)

---------------------------------------------------------------------------
(* The polling loop: main.py and the coroutines it awaits *)

\* new: new_trade_urls; gone: the stored URLs no longer visible; same: the
\* snapshot had not changed since the scan before; done: a scan ran in
\* this cycle.
\* no run of place_orders in progress
NoExec == [phase |-> "idle", side |-> NoneS, entries |-> <<>>, stop_loss |-> NoneN,
           take_profit |-> <<>>, tasks |-> <<>>, orders |-> <<>>, stop_calls |-> <<>>]

\* no function called on its own
NoProbe == [fn |-> NoneS]

\* warned: the URLs the warning of active_trades_scraper.py line 78 was
\* printed for
NoScan == [new |-> {}, gone |-> {}, warned |-> {}, same |-> FALSE, done |-> FALSE]

NoLast == [venue |-> NoneS, url |-> NoneS, crud |-> NoneS, td |-> NoneTD,
           before |-> NoneTD, success |-> FALSE, raised |-> FALSE, calls |-> <<>>]

Dispatch(venue, url, crud_type, td, before, r) ==
    [venue |-> venue, url |-> url, crud |-> crud_type, td |-> td, before |-> before,
     success |-> r.success, raised |-> r.raised, calls |-> r.calls]

Init ==
    /\ state = load_state(default_state)
    /\ disk = default_state
    /\ pc = "loop"
    /\ stop_signal = FALSE
    /\ queue = <<>>
    /\ crud = NoneS
    /\ pending_id = NoneN
    /\ clients = {}
    /\ feedA = <<>>
    /\ feedU = <<>>
    /\ next_id = 1
    /\ changed = TRUE
    /\ lastScan = NoScan
    /\ last = NoLast
    /\ createOk = {}
    /\ exec = NoExec
    /\ probe = NoProbe

envVars == <<feedA, feedU, next_id, changed>>
histVars == <<lastScan, last, createOk>>

\* scrape_and_parse_active_trades up to its call of
\* update_active_trades_from_urls: the seen set is replaced and saved
\* (lines 41-42) before the new URLs are looked at.
scrape_and_parse_active_trades ==
    /\ pc = "loop"
    /\ ~stop_signal
    /\ LET current    == current_trade_urls(feedA)
           previous   == state.all_seen_urls
           new        == NewTradeUrls(current, previous)
           st1        == [state EXCEPT !.all_seen_urls = SeenAfterScan(current, previous)]
           trade_urls == trade_urls_of(feedA, new, st1)
       IN  /\ state' = st1
           /\ disk' = save_state(st1)
           /\ lastScan' = [new |-> new, gone |-> previous \ current,
                           warned |-> {feedA[i].url : i \in
                                         {k \in 1..Len(feedA) :
                                            /\ feedA[k].trader \in FOLLOWED_TRADERS
                                            /\ feedA[k].url \in new
                                            /\ InLedger(st1, feedA[k].url)}},
                           same |-> ~changed, done |-> TRUE]
           /\ IF new = {} \/ Len(trade_urls) = 0
              THEN /\ pc' = "updates"
                   /\ queue' = <<>>
                   /\ crud' = NoneS
              ELSE /\ pc' = "create_batch"
                   /\ queue' = trade_urls
                   /\ crud' = "CREATE"
    /\ changed' = FALSE
    /\ last' = NoLast
    /\ UNCHANGED <<probe, exec, stop_signal, pending_id, clients, feedA, feedU, next_id, createOk>>

InBatch == pc \in {"create_batch", "update_batch"} /\ queue # <<>>

\* One turn of the loop of update_active_trades_from_urls whose page opens
\* (page.goto is outside the try; see visit_goto_raises).
\* wait_for_selector times out: the except branch, nothing is written.
visit_selector_timeout ==
    /\ InBatch
    /\ queue' = Tail(queue)
    /\ UNCHANGED <<probe, exec, state, disk, pc, stop_signal, crud, pending_id, clients, envVars,
                   lastScan, last, createOk>>

\* The page is read and parsed: no trade data, or the handler is awaited and
\* then active_trades[url] = trade_data (lines 59-62).
visit_parsed ==
    /\ InBatch
    /\ \E text \in LoopTexts, out \in VenueOutcomes :
         LET url        == Head(queue)
             trade_data == parse_trade_html(text)
             r          == handle_trade_update(trade_data, crud, clients, out)
         IN  IF IsNone(trade_data)
                THEN UNCHANGED <<state, last, createOk>>
                ELSE /\ state' = LedgerAfterHandler(state, url, trade_data, r)
                     /\ last' = Dispatch("hyperliquid", url, crud, trade_data,
                                         LedgerEntry(state, url), r)
                     /\ createOk' = IF crud = "CREATE" /\ r.success
                                    THEN createOk \cup {url} ELSE createOk
    /\ queue' = Tail(queue)
    /\ UNCHANGED <<probe, exec, disk, pc, stop_signal, crud, pending_id, clients, envVars, lastScan>>

\* context.new_page() or page.goto(url) raises: the exception leaves
\* update_active_trades_from_urls, the feed coroutine and the loop of main();
\* main's finally saves the state and the process ends.
visit_goto_raises ==
    /\ InBatch
    /\ disk' = save_state(state)
    /\ pc' = "exited"
    /\ queue' = <<>>
    /\ crud' = NoneS
    /\ pending_id' = NoneN
    /\ last' = NoLast
    /\ UNCHANGED <<probe, exec, state, stop_signal, clients, envVars, lastScan, createOk>>

\* The end of update_active_trades_from_urls (lines 72-74) and what its
\* caller does after it.
finish_create_batch ==
    /\ pc = "create_batch"
    /\ queue = <<>>
    /\ disk' = save_state(state)
    /\ pc' = "updates"
    /\ crud' = NoneS
    /\ last' = NoLast
    /\ UNCHANGED <<probe, exec, state, stop_signal, queue, pending_id, clients, envVars,
                   lastScan, createOk>>

\* the cursor is moved and the file is left as it was
finish_update_unsaved ==
    /\ pc = "update_batch"
    /\ queue = <<>>
    /\ state' = [state EXCEPT !.last_trade_updates_message_id = pending_id]
    /\ pc' = "loop"
    /\ crud' = NoneS
    /\ pending_id' = NoneN
    /\ last' = NoLast
    /\ UNCHANGED <<probe, exec, disk, stop_signal, queue, clients, envVars, lastScan, createOk>>

finish_update_batch ==
    /\ pc = "update_batch"
    /\ queue = <<>>
    /\ state' = [state EXCEPT !.last_trade_updates_message_id = pending_id]
    /\ disk' = save_state(state')
    /\ pc' = "loop"
    /\ crud' = NoneS
    /\ pending_id' = NoneN
    /\ last' = NoLast
    /\ UNCHANGED <<probe, exec, stop_signal, queue, clients, envVars, lastScan, createOk>>

\* the cursor is moved as soon as the batch is known
cursor_moved_first(st, new_last_msg_id) ==
    [st EXCEPT !.last_trade_updates_message_id = new_last_msg_id]

\* trade_updates_scraper.py lines 68-84 write nothing to the state;
\* new_last_msg_id is stored at line 88 only
state_before_batch(st, new_last_msg_id) == st

\* the id of the oldest message of the snapshot
oldest_id(all_messages) == all_messages[1].id

\* trade_updates_scraper.py lines 59-61: all_messages[-1], the id after the
\* last "-"
latest_id(all_messages) == all_messages[Len(all_messages)].id

\* check_trade_updates up to its call of update_active_trades_from_urls
check_trade_updates ==
    /\ pc = "updates"
    /\ LET last_seen_id == state.last_trade_updates_message_id
           x            == extract_new_trade_updates(feedU, last_seen_id)
       IN  IF last_seen_id = NoneN
           THEN /\ state' = IF feedU # <<>>
                            THEN [state EXCEPT !.last_trade_updates_message_id =
                                                   latest_id(feedU)]
                            ELSE state
                /\ disk' = IF feedU # <<>> THEN save_state(state') ELSE disk
                /\ pc' = "loop"
                /\ UNCHANGED <<queue, crud, pending_id>>
           ELSE IF x.urls = <<>>
           THEN /\ pc' = "loop"
                /\ UNCHANGED <<state, disk, queue, crud, pending_id>>
           ELSE /\ pc' = "update_batch"
                /\ queue' = actionable_updates_of(x.urls, state)
                /\ crud' = UpdateIntent
                /\ pending_id' = x.ids[Len(x.ids)]
                /\ state' = state_before_batch(state, x.ids[Len(x.ids)])
                /\ disk' = disk
    /\ lastScan' = NoScan
    /\ UNCHANGED <<probe, exec, stop_signal, clients, envVars, last, createOk>>

\* a signal that ends the process where it stands
interrupting_shutdown ==
    /\ pc # "exited"
    /\ ~stop_signal
    /\ stop_signal' = TRUE
    /\ pc' = "exited"
    /\ UNCHANGED <<probe, exec, state, disk, queue, crud, pending_id, clients, envVars, histVars>>

\* handle_shutdown: SIGINT or SIGTERM sets the flag
handle_shutdown ==
    /\ pc # "exited"
    /\ ~stop_signal
    /\ stop_signal' = TRUE
    /\ UNCHANGED <<probe, exec, state, disk, pc, queue, crud, pending_id, clients, envVars, histVars>>

\* main(): the loop sees the flag; finally: save_state(state)
main_exit ==
    /\ pc = "loop"
    /\ stop_signal
    /\ disk' = save_state(state)
    /\ pc' = "exited"
    /\ UNCHANGED <<probe, exec, state, stop_signal, queue, crud, pending_id, clients, envVars, histVars>>

\* The process is killed where it is, or has ended, and main() starts
\* again: state = load_state(); the module globals are fresh.  Nothing
\* main() runs calls initialize_clients, so clients stays empty.
restart ==
    /\ disk # TornFile
    /\ state' = load_state(disk)
    /\ pc' = "loop"
    /\ stop_signal' = FALSE
    /\ queue' = <<>>
    /\ crud' = NoneS
    /\ pending_id' = NoneN
    /\ clients' = {}
    /\ last' = NoLast
    /\ lastScan' = NoScan
    /\ UNCHANGED <<probe, exec, disk, envVars, createOk>>

---------------------------------------------------------------------------
(* The two channels *)

active_trades_post ==
    /\ Len(feedA) < MaxBlocks
    /\ \E b \in BLOCKS : feedA' = Append(feedA, b)
    /\ changed' = TRUE
    /\ UNCHANGED <<probe, exec, state, disk, pc, stop_signal, queue, crud, pending_id, clients,
                   feedU, next_id, histVars>>

\* a reaction is added to or removed from a message
active_trades_react ==
    /\ \E i \in 1..Len(feedA), em \in EMOJIS :
         /\ em # feedA[i].emojis
         /\ feedA' = [feedA EXCEPT ![i].emojis = em]
    /\ changed' = TRUE
    /\ UNCHANGED <<probe, exec, state, disk, pc, stop_signal, queue, crud, pending_id, clients,
                   feedU, next_id, histVars>>

\* the oldest message is deleted or scrolls out of the rendered list
active_trades_remove ==
    /\ feedA # <<>>
    /\ feedA' = Tail(feedA)
    /\ changed' = TRUE
    /\ UNCHANGED <<probe, exec, state, disk, pc, stop_signal, queue, crud, pending_id, clients,
                   feedU, next_id, histVars>>

trade_updates_post ==
    /\ next_id <= MaxMsgs
    /\ \E link \in LINKS :
         feedU' = Append(feedU, [id |-> next_id, link |-> link])
    /\ next_id' = next_id + 1
    /\ UNCHANGED <<probe, exec, state, disk, pc, stop_signal, queue, crud, pending_id, clients,
                   feedA, changed, histVars>>

trade_updates_remove ==
    /\ feedU # <<>>
    /\ feedU' = Tail(feedU)
    /\ UNCHANGED <<probe, exec, state, disk, pc, stop_signal, queue, crud, pending_id, clients,
                   feedA, next_id, changed, histVars>>

Next ==
    \/ scrape_and_parse_active_trades
    \/ visit_selector_timeout
    \/ visit_parsed
    \/ visit_goto_raises
    \/ finish_create_batch
    \/ finish_update_batch
    \/ check_trade_updates
    \/ main_exit
    \/ handle_shutdown
    \/ restart
    \/ active_trades_post
    \/ active_trades_react
    \/ active_trades_remove
    \/ trade_updates_post
    \/ trade_updates_remove

Spec == Init /\ [][Next]_vars

---------------------------------------------------------------------------
(* The polling loop while #trade-updates stays empty: the create feed alone *)

NextCreateFeed ==
    \/ scrape_and_parse_active_trades
    \/ visit_selector_timeout
    \/ visit_parsed
    \/ visit_goto_raises
    \/ finish_create_batch
    \/ check_trade_updates
    \/ handle_shutdown
    \/ main_exit
    \/ restart
    \/ active_trades_post
    \/ active_trades_react
    \/ active_trades_remove

SpecCreateFeed == Init /\ [][NextCreateFeed]_vars

---------------------------------------------------------------------------
(* update_active_trades_from_urls and the two handlers called on their own, *)
(* one URL at a time, with every crud_type, every venue outcome and both    *)
(* shapes of trade data: the dict the parser builds, and a dict with the    *)
(* keys the handlers read.                                                  *)

CLIENT_SETS == {{1, 2, 3}}

CRUD_TYPES == {"CREATE", "UPDATE", "CLOSE", "UPDATER"}

\* hyperliquid_handler.py lines 57-63, bybit_handler.py lines 14-20: the
\* keys a handler reads
HandlerRecord(text) ==
    ("trader" :> text.trader) @@ ("symbol" :> text.symbol)
    @@ ("side" :> text.direction) @@ ("entries" :> text.entries)
    @@ ("stop_loss" :> text.stop) @@ ("take_profit" :> text.tp)
    @@ ("closed_price" :> text.closed)

TextPerdu       == Text("Perdu", BTC, "long", <<100, 98>>, 95, 110, NoneN)
TextPerduStop90 == Text("Perdu", BTC, "long", <<100, 98>>, 90, 110, NoneN)
TextPerduMoved  == Text("Perdu", BTC, "long", <<101>>, 95, 110, 105)

TextClosedStop90 == Text("Trader1", BTC, "long", <<100, 98>>, 90, 110, 105)

HANDLER_RECORDS ==
    {HandlerRecord(t) : t \in {TextFull, TextStop90, TextStranger, TextNoStop,
                               TextClosed, TextClosedStop90}}

BYBIT_RECORDS ==
    {HandlerRecord(t) : t \in {TextPerdu, TextPerduStop90, TextPerduMoved}}

InitH ==
    /\ state = default_state
    /\ disk = default_state
    /\ pc = "direct"
    /\ stop_signal = FALSE
    /\ queue = <<>>
    /\ crud = NoneS
    /\ pending_id = NoneN
    /\ clients = {}
    /\ feedA = <<>>
    /\ feedU = <<>>
    /\ next_id = 1
    /\ changed = TRUE
    /\ lastScan = NoScan
    /\ last = NoLast
    /\ createOk = {}
    /\ exec = NoExec
    /\ probe = NoProbe

\* initialize_clients: a client for every subaccount whose credentials are
\* set and whose connection verifies
initialize_clients ==
    /\ clients = {}
    /\ \E ok \in CLIENT_SETS : clients' = ok
    /\ UNCHANGED <<probe, exec, state, disk, pc, stop_signal, queue, crud, pending_id, envVars, histVars>>

\* update_active_trades_from_urls(["u1"], state, context, crud_type)
visit(text, crud_type, out) ==
    /\   LET url        == "u1"
             trade_data == parse_trade_html(text)
             r          == handle_trade_update(trade_data, crud_type, clients, out)
         IN  IF IsNone(trade_data)
             THEN UNCHANGED <<state, disk, last, createOk>>
             ELSE /\ state' = LedgerAfterHandler(state, url, trade_data, r)
                  /\ disk' = save_state(state')
                  /\ last' = Dispatch("hyperliquid", url, crud_type, trade_data,
                                      LedgerEntry(state, url), r)
                  /\ createOk' = IF crud_type = "CREATE" /\ r.success
                                 THEN createOk \cup {url} ELSE createOk
    /\ UNCHANGED <<probe, exec, pc, stop_signal, queue, crud, pending_id, clients, envVars, lastScan>>

direct_visit ==
    \E text \in TEXTS, crud_type \in CRUD_TYPES, out \in VenueOutcomes :
        visit(text, crud_type, out)

\* the same turn of the loop for trade data that carries the handlers' keys
handle(trade_data, crud_type, out) ==
    /\   LET url == "u1"
             r   == handle_trade_update(trade_data, crud_type, clients, out)
         IN  /\ state' = LedgerAfterHandler(state, url, trade_data, r)
             /\ disk' = save_state(state')
             /\ last' = Dispatch("hyperliquid", url, crud_type, trade_data,
                                 LedgerEntry(state, url), r)
             /\ createOk' = IF crud_type = "CREATE" /\ r.success
                            THEN createOk \cup {url} ELSE createOk
    /\ UNCHANGED <<probe, exec, pc, stop_signal, queue, crud, pending_id, clients, envVars, lastScan>>

direct_handle ==
    \E trade_data \in HANDLER_RECORDS, crud_type \in CRUD_TYPES, out \in VenueOutcomes :
        handle(trade_data, crud_type, out)

\* the same turn with the Bybit handler in place of the Hyperliquid one; an
\* exception of the handler is caught by the loop (trade_parser.py line 66)
\* and the record is not written
direct_bybit ==
    /\ \E trade_data \in BYBIT_RECORDS, crud_type \in CRUD_TYPES, out \in VenueOutcomes :
         LET url == "u1"
             r   == bybit_handle_trade_update(trade_data, crud_type, url, state, out)
         IN  /\ state' = IF r.raised THEN state
                         ELSE LedgerAfterHandler(state, url, trade_data, r)
             /\ disk' = save_state(state')
             /\ last' = Dispatch("bybit", url, crud_type, trade_data,
                                 LedgerEntry(state, url), r)
    /\ UNCHANGED <<probe, exec, pc, stop_signal, queue, crud, pending_id, clients, envVars,
                   lastScan, createOk>>

NextH ==
    \/ initialize_clients
    \/ direct_visit
    \/ direct_handle
    \/ direct_bybit

SpecHandlers == InitH /\ [][NextH]_vars

---------------------------------------------------------------------------
(* Properties of the polling loop (Spec) *)

\* C1: in every reachable state a URL is a key of the ledger if and only if
\* a CREATE for that URL was processed with the handler reporting success; a
\* dispatch the handler fails or rejects never adds the URL.
C1_LedgerIffCreateSucceeded ==
    \A u \in URLS : InLedger(state, u) <=> u \in createOk

\* C2: all_seen_urls is persisted only after the CREATE actions for the
\* cycle's newly seen URLs have been attempted: while a URL still waits in
\* the CREATE batch, the persisted cursor does not contain it.
C2_CursorAfterAttempt ==
    pc = "create_batch" =>
        \A i \in 1..Len(queue) : queue[i] \notin disk.all_seen_urls

\* C4: a create-feed cycle run on a snapshot that has not changed since the
\* previous cycle finds no new URL, starts no CREATE batch (the parser and
\* the handler are not invoked) and leaves the ledger as it was.
C4_DedupIdempotence ==
    [][(scrape_and_parse_active_trades /\ ~changed) =>
          /\ lastScan'.new = {}
          /\ pc' = "updates"
          /\ queue' = <<>>
          /\ state'.active_trades = state.active_trades
          /\ disk'.active_trades = disk.active_trades]_vars

C4_Witness ==
    /\ lastScan.done
    /\ lastScan.same
    /\ feedA # <<>>
    /\ InLedger(state, "u1")
    /\ pc = "updates"

\* C5 as stated: the new URLs of a cycle are the symmetric difference of the
\* visible URLs and the stored all_seen_urls.
C5_NewIsSymmetricDifference ==
    [][scrape_and_parse_active_trades =>
          lastScan'.new = SymDiff(current_trade_urls(feedA), state.all_seen_urls)]_vars

\* C5: the new URLs of a cycle are the visible URLs that are not in the
\* stored all_seen_urls (the set difference); a stored URL that is no longer
\* visible is not new, and only new URLs are queued for CREATE.
C5_NewIsDifference ==
    [][scrape_and_parse_active_trades =>
          /\ lastScan'.new = current_trade_urls(feedA) \ state.all_seen_urls
          /\ SeqToSet(queue') \subseteq current_trade_urls(feedA) \ state.all_seen_urls]_vars

C5_Witness ==
    /\ lastScan.done
    /\ lastScan.new # {}
    /\ lastScan.gone # {}

\* C6: a signal whose trader is not followed is rejected with no side
\* effect: after it is processed the ledger entry of its URL is what it was
\* before, and no venue call was made.
C6_UnfollowedNoSideEffect ==
    (last.url # NoneS /\ GetS(last.td, "trader") \notin FOLLOWED_TRADERS) =>
        /\ LedgerEntry(state, last.url) = last.before
        /\ last.calls = <<>>

\* C9: a URL with a ledger record that the update feed offers is handled
\* with UPDATE intent.
C9_UpdateIntent ==
    (pc = "update_batch" /\ last.url # NoneS) => last.crud = "UPDATE"

---------------------------------------------------------------------------
(* The polling loop under fair scheduling: the event loop always runs the  *)
(* next step of main while there is one (main.py lines 41-51).             *)

ProgramStep ==
    \/ scrape_and_parse_active_trades
    \/ visit_selector_timeout
    \/ visit_parsed
    \/ finish_create_batch
    \/ finish_update_batch
    \/ check_trade_updates
    \/ main_exit

FairSpec == Init /\ [][Next]_vars /\ WF_vars(ProgramStep)

\* u is shown in the feed as an actionable trade link (followed trader, a
\* futures marker, not marked filled) and has no ledger record
Actionable(u) ==
    \E i \in 1..Len(feedA) : feedA[i].url = u /\ Selected(feedA[i], URLS, state)

CreateDispatched(u) ==
    pc = "create_batch" /\ crud = "CREATE" /\ u \in SeqToSet(queue)

\* C3: while polling cycles keep running, a URL that is visible as an
\* actionable trade link and has no ledger record is eventually dispatched
\* for CREATE unless it stops being so, also when it was first seen while
\* it was not yet actionable.
C3_NoFalseNegatives ==
    ([]<><<scrape_and_parse_active_trades>>_vars) =>
        (Actionable("u1") ~> (CreateDispatched("u1") \/ ~Actionable("u1")))

---------------------------------------------------------------------------
(* Properties of the handlers (SpecHandlers) *)

\* the required fields of a CREATE
Lacks(td) ==
    \/ ~TruthyL(GetL(td, "entries"))
    \/ ~TruthyN(GetN(td, "stop_loss"))
    \/ ~TruthyS(GetS(td, "side"))

OrderOps == {"create_limit_order", "create_order", "place_order", "set_trading_stop"}

\* C7: a CREATE whose signal lacks entries, stop_loss or side is rejected:
\* no entry, stop or take-profit order is submitted and the ledger entry of
\* its URL stays as it was.
C7_IncompleteCreateRejected ==
    (last.url # NoneS /\ last.crud = "CREATE" /\ Lacks(last.td)) =>
        /\ \A i \in 1..Len(last.calls) : last.calls[i].op \notin OrderOps
        /\ LedgerEntry(state, last.url) = last.before

Working(out) ==
    out.placed = 1..MaxEntries /\ out.amounts /\ out.sl /\ out.tp

\* C8: a CREATE for a URL absent from the ledger whose parsed signal is
\* complete (TextFull: followed trader, symbol, long, entries 100 and 98,
\* stop 95, take profit 110), with a client for the trader and a working
\* venue, submits one entry order per entry price, then the stop order and
\* the take-profit order, and the ledger then holds the parsed signal.
C8_CompleteCreatePlacesOrders ==
    [][\A out \in {o \in VenueOutcomes : Working(o)} :
          (/\ get_client_for_trader(TextFull.trader, clients)
           /\ ~InLedger(state, "u1")
           /\ visit(TextFull, "CREATE", out))
          => /\ Len(last'.calls) = 4
             /\ last'.calls[1].op = "create_limit_order" /\ last'.calls[1].price = 100
             /\ last'.calls[2].op = "create_limit_order" /\ last'.calls[2].price = 98
             /\ last'.calls[3].trigger = "sl" /\ last'.calls[3].price = 95
             /\ last'.calls[4].trigger = "tp"
             /\ (last'.calls[4].price = 110 \/ last'.calls[4].prices = <<110>>)
             /\ LedgerEntry(state', "u1") = parse_trade_html(TextFull)]_vars

\* C10: an UPDATE whose incoming values equal the recorded ones on entries,
\* stop_loss, take_profit and closed_price performs no venue action.
C10_IdenticalUpdateNoAction ==
    (/\ last.url # NoneS
     /\ last.crud = "UPDATE"
     /\ ~IsNone(last.before)
     /\ diffs(last.before, last.td) = {}) => last.calls = <<>>

\* the venue calls that touch the resting entry orders, the stop and
\* take-profit orders, and the position
EntryAction(c) ==
    \/ c.op \in {"create_limit_order", "cancel_order"}
    \/ (c.op = "place_order" /\ ~c.reduce_only)

StopAction(c) == c.op \in {"create_order", "set_trading_stop"}

CloseAction(c) ==
    \/ c.op = "create_market_order"
    \/ (c.op = "place_order" /\ c.reduce_only)

\* C11: in an UPDATE a venue action fires only when its key of the diff
\* changed: entry orders are cancelled or placed only when entries changed,
\* stop/take-profit orders only when stop_loss or take_profit changed, the
\* position is closed only when closed_price changed; an update that
\* changes only stop_loss leaves the entry orders untouched.
C11_ActionOnlyForChangedKey ==
    (last.url # NoneS /\ last.crud = "UPDATE" /\ ~IsNone(last.before)) =>
        LET d == diffs(last.before, last.td)
        IN  \A i \in 1..Len(last.calls) :
               /\ EntryAction(last.calls[i]) => "entries" \in d
               /\ StopAction(last.calls[i]) => ("stop_loss" \in d \/ "take_profit" \in d)
               /\ CloseAction(last.calls[i]) => "closed_price" \in d

\* C12: an update for a recorded URL that carries a closed_price together
\* with a changed stop_loss, with a client for the trader and a working
\* venue, replaces the stop/take-profit orders and then closes the position,
\* the close being the last venue action of the cycle.
C12_CloseAfterOtherActions ==
    [][\A out \in {o \in VenueOutcomes : Working(o)} :
          (/\ get_client_for_trader(TextFull.trader, clients)
           /\ LedgerEntry(state, "u1") = HandlerRecord(TextFull)
           /\ handle(HandlerRecord(TextClosedStop90), "UPDATE", out))
          => /\ \E i \in 1..Len(last'.calls) : StopAction(last'.calls[i])
             /\ last'.calls # <<>>
             /\ CloseAction(last'.calls[Len(last'.calls)])]_vars

Submission(c) ==
    \/ c.op \in {"create_limit_order", "create_order", "set_trading_stop"}
    \/ (c.op = "place_order" /\ ~c.reduce_only)

\* C13: once a CLOSE has been processed for a URL (the position was closed
\* at market and the record has closed_price set), the next dispatch for
\* that URL submits no entry order and no stop/take-profit order.
C13_CloseIsTerminal ==
    [][(/\ last.url = "u1"
        /\ last.success
        /\ \E i \in 1..Len(last.calls) : CloseAction(last.calls[i])
        /\ TruthyN(GetN(LedgerEntry(state, "u1"), "closed_price")))
       => \A i \in 1..Len(last'.calls) : ~Submission(last'.calls[i])]_vars

\* C18: after a CREATE in which some entry orders failed, the entries of
\* the record the ledger holds are the prices whose orders were placed.
C18_LedgerHoldsPlacedEntries ==
    [][\A out \in VenueOutcomes :
          (/\ get_client_for_trader(TextFull.trader, clients)
           /\ handle(HandlerRecord(TextFull), "CREATE", out))
          => GetL(LedgerEntry(state', "u1"), "entries")
               = Successful(TextFull.entries, out.placed, 1)]_vars

---------------------------------------------------------------------------
(* Properties of the ledger in the polling loop (Spec) *)

\* C14: no step of the polling loop, of the shutdown or of a restart after
\* the shutdown removes a URL from the keys of active_trades.
C14_LedgerKeysNeverRemoved ==
    [][(restart => pc = "exited") =>
          DOMAIN state.active_trades \subseteq DOMAIN state'.active_trades]_vars

C14_Witness ==
    /\ InLedger(state, "u1")
    /\ lastScan.done
    /\ "u1" \in lastScan.gone
    /\ "u1" \notin state.all_seen_urls

---------------------------------------------------------------------------
(* hyperliquid_executor.py, task by task: place_orders starts one task per *)
(* entry price, every task is a with_retry around create_limit_order; the   *)
(* handler then places the stop and take-profit orders.                     *)

loopVars == <<state, disk, pc, stop_signal, queue, crud, pending_id, clients,
              feedA, feedU, next_id, changed, lastScan, last, createOk>>

max_retries == 3

\* a constant delay
wait_one(attempt) == 1

\* line 58
wait_time(attempt) == 2 ^ attempt

\* An error message, as the set of phrases str(e).lower() contains
ERROR_MSGS == {{"timeout"}, {"rate limit"}, {"order", "already canceled"},
               {"order", "not found"}, {"asset", "does not exist"}}

\* only the first phrase of line 49
only_canceled(error_msg) == "already canceled" \in error_msg

\* line 49
no_retry(error_msg) ==
    "already canceled" \in error_msg \/ "not found" \in error_msg
    \/ "does not exist" \in error_msg

\* A with_retry in progress: the attempt of the for loop, what became of
\* it, how often func was called, the sleeps and the errors so far.
NewTask == [attempt |-> 0, status |-> "ready", calls |-> 0, slept |-> <<>>,
            errors |-> <<>>]

Settled(t) == t.status \in {"order", "none", "raised"}

AnySettled(tasks) == \E i \in 1..Len(tasks) : Settled(tasks[i])

\* asyncio.gather(*order_tasks, return_exceptions=True) returns
AllSettled(tasks) == \A i \in 1..Len(tasks) : Settled(tasks[i])

\* every entry price, whatever became of its task
every_order(tasks, entries) == entries

\* lines 141-144: the results that are orders
RECURSIVE successful_orders(_, _)
successful_orders(tasks, entries) ==
    IF tasks = <<>> THEN <<>>
    ELSE (IF Head(tasks).status = "order" THEN <<Head(entries)>> ELSE <<>>)
         \o successful_orders(Tail(tasks), Tail(entries))

EntryPrices(n) == [i \in 1..n |-> 102 - 2 * i]

\* place_orders lines 122-135
place_orders_start ==
    /\ exec.phase = "idle"
    /\ \E side \in {"long", "short"}, n \in 1..MaxEntries, tp \in {<<>>, <<110>>} :
         exec' = [phase |-> "entries", side |-> side, entries |-> EntryPrices(n),
                  stop_loss |-> IF side = "long" THEN 95 ELSE 105,
                  take_profit |-> tp, tasks |-> [i \in 1..n |-> NewTask],
                  orders |-> <<>>, stop_calls |-> <<>>]
    /\ UNCHANGED <<probe, loopVars>>

\* with_retry line 45: func() returns the order
attempt_returns ==
    /\ exec.phase = "entries"
    /\ \E i \in 1..Len(exec.tasks) :
         /\ exec.tasks[i].status = "ready"
         /\ exec' = [exec EXCEPT !.tasks[i].status = "order",
                                 !.tasks[i].calls = @ + 1]
    /\ UNCHANGED <<probe, loopVars>>

\* with_retry lines 46-60: func() raises
attempt_raises ==
    /\ exec.phase = "entries"
    /\ \E i \in 1..Len(exec.tasks), error_msg \in ERROR_MSGS :
         LET t == exec.tasks[i]
         IN  /\ t.status = "ready"
             /\ exec' = [exec EXCEPT !.tasks[i] =
                  IF no_retry(error_msg)
                  THEN [t EXCEPT !.status = "none", !.calls = @ + 1,
                                 !.errors = Append(@, error_msg)]
                  ELSE IF t.attempt = max_retries - 1
                  THEN [t EXCEPT !.status = "raised", !.calls = @ + 1,
                                 !.errors = Append(@, error_msg)]
                  ELSE [t EXCEPT !.status = "sleeping", !.calls = @ + 1,
                                 !.errors = Append(@, error_msg),
                                 !.slept = Append(@, wait_time(t.attempt))]]
    /\ UNCHANGED <<probe, loopVars>>

\* asyncio.sleep(wait_time) is over: the next turn of the for loop
backoff_over ==
    /\ exec.phase = "entries"
    /\ \E i \in 1..Len(exec.tasks) :
         /\ exec.tasks[i].status = "sleeping"
         /\ exec' = [exec EXCEPT !.tasks[i].status = "ready",
                                 !.tasks[i].attempt = @ + 1]
    /\ UNCHANGED <<probe, loopVars>>

\* place_orders lines 138-152
gather ==
    /\ exec.phase = "entries"
    /\ AllSettled(exec.tasks)
    /\ exec' = [exec EXCEPT !.phase = "gathered",
                            !.orders = successful_orders(exec.tasks, exec.entries)]
    /\ UNCHANGED <<probe, loopVars>>

\* handle_create_trade lines 162-215
place_stops ==
    /\ exec.phase = "gathered"
    /\ \E out \in VenueOutcomes :
         exec' = [exec EXCEPT
                    !.phase = "done",
                    !.stop_calls =
                       IF exec.orders = <<>> THEN <<>>
                       ELSE set_stop_loss_take_profit(BTC, exec.side, exec.stop_loss,
                                                      exec.take_profit, out).calls]
    /\ UNCHANGED <<probe, loopVars>>

handler_returns ==
    /\ exec.phase = "done"
    /\ exec' = NoExec
    /\ UNCHANGED <<probe, loopVars>>

NextExec ==
    \/ place_orders_start
    \/ attempt_returns
    \/ attempt_raises
    \/ backoff_over
    \/ gather
    \/ place_stops
    \/ handler_returns

SpecExec == InitH /\ [][NextExec]_vars

NoOpPhrases == {"already canceled", "not found", "does not exist"}

Retryable(error_msg) == error_msg \cap NoOpPhrases = {}

\* C15 (as stated): a call that fails with a retryable error on every
\* attempt is invoked exactly 3 times, with waits of 1s, 2s and 4s, and the
\* final error is then propagated.
C15_ThreeAttemptsThreeWaits ==
    \A i \in 1..Len(exec.tasks) :
       LET t == exec.tasks[i]
       IN  (Len(t.errors) = 3 /\ \A k \in 1..3 : Retryable(t.errors[k]))
              => /\ t.status = "raised"
                 /\ t.calls = 3
                 /\ t.slept = <<1, 2, 4>>

\* C15 (amended): a call that fails with a retryable error on every attempt
\* is invoked exactly 3 times, with waits of 1s and 2s between the attempts
\* and none after the third, whose error is propagated at once.
C15_ThreeAttemptsTwoWaits ==
    \A i \in 1..Len(exec.tasks) :
       LET t == exec.tasks[i]
       IN  /\ t.calls <= 3
           /\ (Len(t.errors) = 3 /\ \A k \in 1..3 : Retryable(t.errors[k]))
                 => /\ t.status = "raised"
                    /\ t.calls = 3
                    /\ t.slept = <<1, 2>>

C15_Witness ==
    \E i \in 1..Len(exec.tasks) :
       /\ exec.tasks[i].status = "raised"
       /\ Len(exec.tasks[i].errors) = 3
       /\ \A k \in 1..3 : Retryable(exec.tasks[i].errors[k])

\* C16: an error whose message contains 'already canceled', 'not found' or
\* 'does not exist' ends with_retry at once, on whichever attempt it occurs:
\* null is returned, with no further attempt, no sleep and no error raised.
C16_NoOpErrorReturnsNull ==
    \A i \in 1..Len(exec.tasks) :
       LET t == exec.tasks[i]
           n == Len(t.errors)
       IN  (n > 0 /\ ~Retryable(t.errors[n]))
              => /\ t.status = "none"
                 /\ t.calls = n
                 /\ Len(t.slept) = n - 1

C16_Witness ==
    \E i \in 1..Len(exec.tasks) :
       /\ exec.tasks[i].status = "none"
       /\ Len(exec.tasks[i].errors) = 3
       /\ "not found" \in exec.tasks[i].errors[3]

\* C17: whichever entry orders fail, place_orders returns exactly the
\* orders of the other entries, in their order, once every task has ended.
C17_PartialFailureIsolated ==
    exec.phase \in {"gathered", "done"} =>
       /\ exec.orders = Successful(exec.entries,
                                   {i \in 1..Len(exec.tasks) : exec.tasks[i].status = "order"}, 1)
       /\ Len(exec.orders) = Len(exec.entries)
                             - Cardinality({i \in 1..Len(exec.tasks) :
                                              exec.tasks[i].status \in {"none", "raised"}})

C17_Witness ==
    /\ exec.phase = "gathered"
    /\ Len(exec.tasks) = 2
    /\ exec.tasks[1].status = "raised"
    /\ exec.tasks[2].status = "order"
    /\ exec.orders = <<98>>

\* C19: no stop or take-profit order exists before every entry task has
\* ended, and a step of one entry task leaves every other task as it was,
\* so a failed task neither cancels nor holds up its siblings.
C19_StopsAfterAllEntriesSettle ==
    /\ []((exec.phase \in {"gathered", "done"} \/ exec.stop_calls # <<>>)
            => \A i \in 1..Len(exec.tasks) :
                  exec.tasks[i].status \in {"order", "none", "raised"})
    /\ [][(exec.phase = "entries" /\ exec'.phase = "entries")
            => \E i \in 1..Len(exec.tasks) :
                  \A j \in 1..Len(exec.tasks) :
                     j # i => exec'.tasks[j] = exec.tasks[j]]_vars
    /\ [][\A i \in 1..Len(exec.tasks) :
            (exec.phase = "entries" /\ exec.tasks[i].status = "raised")
               => /\ exec'.tasks[i] = exec.tasks[i]
                  /\ \A j \in 1..Len(exec.tasks) :
                        exec.tasks[j].status = "order"
                           => exec'.tasks[j].status = "order"]_vars

C19_Witness ==
    /\ exec.phase = "done"
    /\ exec.stop_calls # <<>>
    /\ Len(exec.tasks) = 2
    /\ exec.tasks[1].status = "raised"
    /\ exec.tasks[2].status = "order"
    /\ exec.tasks[2].calls = 3

\* C20: every order of set_stop_loss_take_profit is reduce-only, on the
\* side opposite to the entry orders, and a limit order with a trigger
\* price, never a market order.
C20_StopsReduceOnlyOppositeLimit ==
    \A k \in 1..Len(exec.stop_calls) :
       LET c == exec.stop_calls[k]
       IN  /\ c.op = "create_order"
           /\ c.reduce_only
           /\ c.type = "limit"
           /\ c.trigger \in {"sl", "tp"}
           /\ (exec.side = "long" => c.side = "sell")
           /\ (exec.side = "short" => c.side = "buy")

C20_Witness ==
    /\ exec.phase = "done"
    /\ exec.side = "short"
    /\ Len(exec.stop_calls) = 2
    /\ exec.stop_calls[1].side = "buy"

---------------------------------------------------------------------------
(* Functions called on their own: close_position and the position sizing  *)
(* of both executors, extract_new_trade_updates.  A float is the exact     *)
(* fraction [n, d] with d > 0; rounding errors of the float arithmetic are *)
(* not modelled.                                                           *)

Frac(n, d) == IF d < 0 THEN [n |-> 0 - n, d |-> 0 - d] ELSE [n |-> n, d |-> d]
Whole(k) == Frac(k, 1)
FMul(a, b) == Frac(a.n * b.n, a.d * b.d)
FDiv(a, b) == Frac(a.n * b.d, a.d * b.n)
FSub(a, b) == Frac(a.n * b.d - b.n * a.d, a.d * b.d)
FAdd(a, b) == Frac(a.n * b.d + b.n * a.d, a.d * b.d)
FAbs(a) == IF a.n < 0 THEN Frac(0 - a.n, a.d) ELSE a
FLess(a, b) == a.n * b.d < b.n * a.d
FSame(a, b) == a.n * b.d = b.n * a.d

\* hyperliquid_executor.py lines 90-118: position_size of place_orders; a
\* division by zero raises.  floor: the $10 minimum replaced the size the
\* risk gives.
position_size_of(entries, stop_loss, risk_per_trade) ==
    IF Len(entries) = 0 \/ SumSeq(entries) = 0
    THEN [raised |-> TRUE, size |-> Whole(0), floor |-> FALSE]
    ELSE LET avg_entry == Frac(SumSeq(entries), Len(entries))
             min_size  == FDiv(Whole(10), avg_entry)
         IN  IF risk_per_trade = 0 \/ risk_per_trade = NoneN
             THEN [raised |-> FALSE, size |-> min_size, floor |-> TRUE]
             ELSE IF TruthyN(stop_loss)
             THEN LET stop_distance ==
                          FDiv(FAbs(FSub(avg_entry, Whole(stop_loss))), avg_entry)
                  IN  IF FLess(Whole(0), stop_distance)
                      THEN LET position_value == FDiv(Whole(risk_per_trade), stop_distance)
                               position_size  == FDiv(position_value, avg_entry)
                           IN  IF FLess(FMul(position_size, avg_entry), Whole(10))
                               THEN [raised |-> FALSE, size |-> min_size, floor |-> TRUE]
                               ELSE [raised |-> FALSE, size |-> position_size,
                                     floor |-> FALSE]
                      ELSE [raised |-> FALSE, size |-> min_size, floor |-> TRUE]
             ELSE [raised |-> FALSE, size |-> min_size, floor |-> TRUE]

\* lines 124-135: every entry price gets an order of the same amount
SizedOrders(entries, size) ==
    [i \in 1..Len(entries) |-> [price |-> entries[i], amount |-> size]]

\* round(qty, 3) of a quantity that is not negative
Round3(q) ==
    LET x    == 1000 * q.n
        k    == x \div q.d
        rest == x % q.d
    IN  IF 2 * rest > q.d \/ (2 * rest = q.d /\ k % 2 = 1)
        THEN Frac(k + 1, 1000) ELSE Frac(k, 1000)

\* order_executor.py lines 3-8
calculate_position_size(entry_price, stop_loss, risk_dollars) ==
    LET risk_per_unit == IF entry_price < stop_loss THEN stop_loss - entry_price
                         ELSE entry_price - stop_loss
    IN  IF stop_loss = NoneN \/ risk_per_unit = 0
        THEN [raised |-> TRUE, qty |-> Whole(0)]
        ELSE [raised |-> FALSE, qty |-> Round3(FDiv(risk_dollars, Whole(risk_per_unit)))]

\* order_executor.py lines 20-41: the orders of the entries before the
\* first one whose sizing raises
RECURSIVE BybitSized(_, _, _)
BybitSized(entries, stop_loss, per_entry_risk) ==
    IF entries = <<>> THEN [raised |-> FALSE, orders |-> <<>>]
    ELSE LET c == calculate_position_size(Head(entries), stop_loss, per_entry_risk)
             rest == BybitSized(Tail(entries), stop_loss, per_entry_risk)
         IN  IF c.raised THEN [raised |-> TRUE, orders |-> <<>>]
             ELSE [raised |-> rest.raised,
                   orders |-> <<[price |-> Head(entries), amount |-> c.qty]>> \o rest.orders]

\* line 22; len(entries) = 0 raises
place_limit_order_sized(entries, stop_loss, risk_per_trade) ==
    IF Len(entries) = 0 THEN [raised |-> TRUE, orders |-> <<>>]
    ELSE BybitSized(entries, stop_loss, Frac(risk_per_trade, Len(entries)))

PRICES == {90, 100}

RECURSIVE PriceLists(_)
PriceLists(n) ==
    IF n = 0 THEN {<<>>}
    ELSE PriceLists(n - 1)
         \cup {Append(l, x) : l \in {k \in PriceLists(n - 1) : Len(k) = n - 1}, x \in PRICES}

ENTRY_LISTS == PriceLists(MaxEntries)
STOPS == {NoneN, 50, 90, 95}
RISKS == {0, 1, 4, 20}

\* the position the venue reports: short, flat, long, or no answer
POSITION_SIZES == {0 - 5, 0, 5, NoneN}

\* answered: the clearinghouseState request came back with status 200;
\* when it did not, get_position_info returns None (lines 443-449)
CloseOutcomes ==
    {o \in [placed : {{}}, amounts : {FALSE}, sl : {FALSE}, tp : {FALSE},
            open : 0..MaxOpen, szi : POSITION_SIZES, answered : BOOLEAN,
            close : BOOLEAN] : o.answered \/ o.szi = NoneN}

\* the sides an order of order_executor.py can have opened a position with:
\* place_limit_order passes side.upper() to the venue
BYBIT_SIDES == {"Buy", "Sell", "BUY", "sell "}

\* hyperliquid_executor.close_position
call_close_position ==
    /\ \E out \in CloseOutcomes :
         LET r == close_position(BTC, out)
         IN  probe' = [fn |-> "close_position", venue |-> "hyperliquid",
                       position |-> IF out.szi = NoneN THEN 0 ELSE out.szi,
                       answered |-> out.answered,
                       returned |-> IF r.success THEN "True" ELSE "False",
                       calls |-> r.calls]
    /\ UNCHANGED <<exec, loopVars>>

\* order_executor.close_position; the position is long for a buy side and
\* short for a sell side; the function returns None
call_bybit_close_position ==
    /\ \E side \in BYBIT_SIDES, size \in {0, 5, NoneN} :
         LET out == [szi |-> size]
         IN  probe' = [fn |-> "close_position", venue |-> "bybit",
                       position |-> IF size = NoneN THEN 0
                                    ELSE IF side \in {"Buy", "BUY"} THEN size
                                    ELSE 0 - size,
                       returned |-> "None",
                       calls |-> bybit_close_position(BTC, side, out)]
    /\ UNCHANGED <<exec, loopVars>>

\* hyperliquid_executor.place_orders up to the orders it asks for
call_place_orders ==
    /\ \E entries \in ENTRY_LISTS, stop_loss \in STOPS, risk_per_trade \in RISKS :
         LET ps == position_size_of(entries, stop_loss, risk_per_trade)
         IN  probe' = [fn |-> "place_orders", venue |-> "hyperliquid",
                       entries |-> entries, stop_loss |-> stop_loss,
                       risk |-> risk_per_trade, raised |-> ps.raised,
                       floor |-> ps.floor,
                       orders |-> IF ps.raised THEN <<>>
                                  ELSE SizedOrders(entries, ps.size)]
    /\ UNCHANGED <<exec, loopVars>>

\* order_executor.place_limit_order up to the orders it asks for
call_place_limit_order ==
    /\ \E entries \in ENTRY_LISTS, stop_loss \in STOPS, risk_per_trade \in RISKS :
         LET po == place_limit_order_sized(entries, stop_loss, risk_per_trade)
         IN  probe' = [fn |-> "place_orders", venue |-> "bybit",
                       entries |-> entries, stop_loss |-> stop_loss,
                       risk |-> risk_per_trade, raised |-> po.raised,
                       floor |-> FALSE, orders |-> po.orders]
    /\ UNCHANGED <<exec, loopVars>>

\* the messages #trade-updates can show: ids ascend, a message may lack a link
RECURSIVE Snapshots(_)
Snapshots(n) ==
    IF n = 0 THEN {<<>>}
    ELSE Snapshots(n - 1)
         \cup {Append(l, [id |-> (IF l = <<>> THEN 0 ELSE l[Len(l)].id) + k,
                            link |-> link]) :
                 l \in {x \in Snapshots(n - 1) : Len(x) = n - 1},
                 k \in 1..2, link \in LINKS}

\* trade_updates_scraper.extract_new_trade_updates
call_extract_new_trade_updates ==
    /\ \E msgs \in Snapshots(MaxMsgs + 1), last_seen_id \in 1..(MaxMsgs + 3) :
         probe' = [fn |-> "extract_new_trade_updates", msgs |-> msgs,
                   last_seen_id |-> last_seen_id,
                   new_trade_urls |-> extract_new_trade_updates(msgs, last_seen_id).urls,
                   msg_ids |-> extract_new_trade_updates(msgs, last_seen_id).ids]
    /\ UNCHANGED <<exec, loopVars>>

NextCalls ==
    \/ call_extract_new_trade_updates
    \/ call_close_position
    \/ call_bybit_close_position
    \/ call_place_orders
    \/ call_place_limit_order

SpecCalls == InitH /\ [][NextCalls]_vars

Magnitude(k) == IF k < 0 THEN 0 - k ELSE k

\* the orders among the calls that close a position
ClosingOrders(calls) ==
    {i \in 1..Len(calls) : calls[i].op \in {"create_market_order", "place_order"}}

Cancellation(c) == c.op \in {"openOrders", "get_open_orders", "cancel_order"}

\* C22: in close_position the cancellation of the resting orders of the
\* symbol is attempted first: the first call to the venue belongs to it,
\* and the position query and the market order come after all of it.
C22_CancelBeforeClose ==
    probe.fn = "close_position" =>
       LET calls == probe.calls
       IN  /\ calls # <<>>
           /\ Cancellation(calls[1])
           /\ \A i, j \in 1..Len(calls) :
                 (Cancellation(calls[i]) /\ ~Cancellation(calls[j])) => i < j

\* the average entry price of a list that is not empty
AvgEntry(entries) == Frac(SumSeq(entries), Len(entries))

\* C23: for a risk budget above 0, entries that are not empty and a stop
\* loss that differs from the average entry, the quantity of every entry
\* order times the average entry price is at least 10.
C23_SizeMeetsMinimumNotional ==
    (/\ probe.fn = "place_orders"
     /\ probe.risk > 0
     /\ probe.entries # <<>>
     /\ probe.stop_loss # NoneN
     /\ ~FSame(AvgEntry(probe.entries), Whole(probe.stop_loss)))
    => \A i \in 1..Len(probe.orders) :
          ~FLess(FMul(probe.orders[i].amount, AvgEntry(probe.entries)), Whole(10))

\* C24: with a risk budget above 0 and a stop loss equal to the average
\* entry price, sizing fails with an error and no entry order is asked for.
C24_StopAtEntryFailsSizing ==
    (/\ probe.fn = "place_orders"
     /\ probe.risk > 0
     /\ probe.entries # <<>>
     /\ probe.stop_loss # NoneN
     /\ FSame(AvgEntry(probe.entries), Whole(probe.stop_loss)))
    => /\ probe.raised
       /\ probe.orders = <<>>

\* what is lost when every order fills and the stop loss is hit
RECURSIVE TotalRisk(_, _)
TotalRisk(orders, stop_loss) ==
    IF orders = <<>> THEN Whole(0)
    ELSE FAdd(FMul(Head(orders).amount, Whole(Magnitude(Head(orders).price - stop_loss))),
              TotalRisk(Tail(orders), stop_loss))

\* C25: with a risk budget above 0 the budget is shared by the entries:
\* unless the minimum size was used, the risk of all entry orders together
\* is not above the budget (by more than the rounding of a quantity to
\* three decimals can add).
C25_RiskSharedByEntries ==
    (/\ probe.fn = "place_orders"
     /\ probe.risk > 0
     /\ probe.stop_loss # NoneN
     /\ ~probe.floor)
    => ~FLess(FAdd(Whole(probe.risk), Whole(1)), TotalRisk(probe.orders, probe.stop_loss))

\* the links of the messages from position i on, in feed order
RECURSIVE LinksFrom(_, _)
LinksFrom(msgs, i) ==
    IF i > Len(msgs) THEN <<>>
    ELSE (IF msgs[i].link # NoneS THEN <<msgs[i].link>> ELSE <<>>)
         \o LinksFrom(msgs, i + 1)

\* C29: in a snapshot that holds the anchor message, extract_new_trade_updates
\* offers exactly the links of the messages after the anchor, in feed
\* order: nothing of the anchor message or of a message before it.
C29_AnchorIsExclusive ==
    probe.fn = "extract_new_trade_updates" =>
       \A a \in 1..Len(probe.msgs) :
          probe.msgs[a].id = probe.last_seen_id
             => /\ probe.new_trade_urls = LinksFrom(probe.msgs, a + 1)
                /\ \A k \in 1..Len(probe.msg_ids) : probe.msg_ids[k] > probe.last_seen_id

C29_Witness ==
    /\ probe.fn = "extract_new_trade_updates"
    /\ Len(probe.msgs) = 3
    /\ probe.msgs[2].id = probe.last_seen_id
    /\ probe.msgs[1].link # NoneS
    /\ probe.msgs[2].link # NoneS
    /\ Len(probe.new_trade_urls) = 1

---------------------------------------------------------------------------
(* The polling loop while messages are only posted, never edited or removed *)

NextCycle ==
    \/ scrape_and_parse_active_trades
    \/ visit_selector_timeout
    \/ visit_parsed
    \/ visit_goto_raises
    \/ finish_create_batch
    \/ finish_update_batch
    \/ check_trade_updates
    \/ main_exit
    \/ handle_shutdown
    \/ restart
    \/ active_trades_post
    \/ trade_updates_post

SpecCycle == Init /\ [][NextCycle]_vars

FairCycle == Init /\ [][NextCycle]_vars /\ WF_vars(ProgramStep)

InCycle == pc \in {"create_batch", "updates", "update_batch"}

\* C26: the stop flag is looked at between cycles only.  A signal changes
\* nothing but the flag; the loop is left from "loop" with the flag set, or
\* by an exception that escapes a batch; with the flag set no cycle starts;
\* whenever the loop is left the state is on disk; and a cycle in which the
\* flag is set goes on to its end.
C26_ShutdownBetweenCycles ==
    /\ [][(~stop_signal /\ stop_signal')
            => UNCHANGED <<state, disk, pc, queue, crud, pending_id>>]_vars
    /\ [][(pc # "exited" /\ pc' = "exited")
            => /\ (pc = "loop" /\ stop_signal) \/ (InCycle /\ queue # <<>>)
               /\ disk' = state'
               /\ state' = state]_vars
    /\ [][(pc = "loop" /\ stop_signal) => pc' \in {"loop", "exited"}]_vars
    /\ ((stop_signal /\ InCycle) ~> (pc \in {"loop", "exited"}))

C26_Witness ==
    /\ stop_signal
    /\ pc = "update_batch"
    /\ last.url = "u1"
    /\ queue = <<>>

\* C28: whenever main() stands between two cycles the file holds what the
\* state dict holds: the ledger, the seen URLs and the update cursor.
C28_DiskEqualsStateAtCycleEnd ==
    pc = "loop" =>
       /\ disk.active_trades = state.active_trades
       /\ disk.all_seen_urls = state.all_seen_urls
       /\ disk.last_trade_updates_message_id = state.last_trade_updates_message_id

C28_Witness ==
    /\ pc = "loop"
    /\ InLedger(state, "u1")
    /\ state.last_trade_updates_message_id = 2
    /\ "u1" \in state.all_seen_urls
    /\ disk = state

Cursor(st) == st.last_trade_updates_message_id

\* C30: once the cursor is set, the state and the file get a new cursor
\* only when the batch has been gone through to its last URL; while a batch
\* is in progress both hold the old cursor, and a cycle that ends before
\* that (the process is killed, or an exception leaves the loop) leaves the
\* old cursor in the file, from which the next start is offered the same
\* links again.
C30_CursorCommittedAfterBatch ==
    /\ [][(Cursor(state) # NoneN /\ Cursor(state') # Cursor(state))
            => \/ (pc = "update_batch" /\ queue = <<>> /\ Cursor(state') = pending_id)
               \/ (pc' = "loop" /\ Cursor(state') = Cursor(disk))]_vars
    /\ [][(Cursor(disk) # NoneN /\ Cursor(disk') # Cursor(disk))
            => (pc = "update_batch" /\ queue = <<>> /\ Cursor(disk') = pending_id)]_vars
    /\ [][(pc = "update_batch" /\ queue # <<>> /\ pc' \in {"loop", "exited"})
            => /\ Cursor(disk') = Cursor(state)
               /\ extract_new_trade_updates(feedU', Cursor(load_state(disk'))).urls
                    = extract_new_trade_updates(feedU, Cursor(state)).urls
               /\ extract_new_trade_updates(feedU', Cursor(load_state(disk'))).urls # <<>>]_vars

C30_Witness ==
    /\ pc = "update_batch"
    /\ queue = <<"u1">>
    /\ pending_id = 2
    /\ Cursor(state) = 1
    /\ Cursor(disk) = 1

---------------------------------------------------------------------------
(* The create feed with a process that can be killed inside save_state *)

\* state.py lines 21-22: the process is killed between open(STATE, "w") and
\* the end of json.dump, in one of the saves main() is about to make
save_state_killed ==
    /\ \/ pc = "loop"
       \/ (pc \in {"create_batch", "update_batch"} /\ queue = <<>>)
    /\ disk' = TornFile
    /\ pc' = "exited"
    /\ queue' = <<>>
    /\ crud' = NoneS
    /\ pending_id' = NoneN
    /\ last' = NoLast
    /\ UNCHANGED <<probe, exec, state, stop_signal, clients, envVars, lastScan, createOk>>

NextKill ==
    \/ scrape_and_parse_active_trades
    \/ visit_selector_timeout
    \/ visit_parsed
    \/ visit_goto_raises
    \/ finish_create_batch
    \/ check_trade_updates
    \/ handle_shutdown
    \/ main_exit
    \/ restart
    \/ save_state_killed
    \/ active_trades_post
    \/ active_trades_react
    \/ active_trades_remove

SpecKill == Init /\ [][NextKill]_vars

\* C27: whatever happens during save_state, the file is a complete
\* document, the one before the save or the one after it, and a start of
\* main() can load it.
C27_SaveIsAtomic ==
    /\ disk # TornFile
    /\ DOMAIN disk = DOMAIN default_state
    /\ (pc = "exited" => ENABLED restart)

---------------------------------------------------------------------------
(* Failures while a batch of URLs is processed *)

\* C31: no failure met while a trade URL is processed ends the polling
\* loop: a turn of the URL loop leaves the process running with the rest of
\* the batch still to be visited, and a trade whose trader has no
\* initialized client is passed over without a venue call.  (A step from
\* a batch to pc = "loop" is a new start of the process, not a failure.)
C31_FailureKeepsLoopRunning ==
    [][(InBatch /\ pc' # "loop") =>
        /\ pc' # "exited"
        /\ (queue' # queue => queue' = Tail(queue))
        /\ (last'.url # NoneS
              /\ ~get_client_for_trader(GetS(last'.td, "trader"), clients)
              => last'.calls = <<>>)]_vars

\* C32: when the CREATE of a URL is aborted (the handler reports failure or
\* raises), the ledger entry of the URL stays as it was, and the URL is not
\* in the stored all_seen_urls, so that the next cycle that sees its link
\* finds it new and attempts the CREATE again.
C32_AbortedCreateIsRetried ==
    [][(last' # last /\ last'.url # NoneS /\ last'.crud = "CREATE"
          /\ (~last'.success \/ last'.raised)) =>
          /\ LedgerEntry(state', last'.url) = last'.before
          /\ last'.url \notin state'.all_seen_urls]_vars

\* C33: the batch of URLs a create-feed cycle hands to
\* update_active_trades_from_urls for CREATE holds each URL at most once,
\* however many times its link is in the snapshot.
C33_CreateOncePerCycle ==
    pc = "create_batch" =>
        \A i, j \in 1..Len(queue) : queue[i] = queue[j] => i = j

\* C34: no URL that has a ledger record when a create-feed cycle starts is
\* in the batch the cycle dispatches for CREATE, and every CREATE dispatch
\* of the batch is for its first waiting URL; this includes a URL that left
\* all_seen_urls and is new again.
C34_NoCreateForLedgerUrl ==
    [][/\ scrape_and_parse_active_trades =>
            \A i \in 1..Len(queue') : ~InLedger(state, queue'[i])
       /\ (pc = "create_batch" /\ last' # last /\ last'.url # NoneS) =>
            (last'.crud = "CREATE" /\ queue # <<>> /\ last'.url = Head(queue))]_vars

\* a URL with a ledger record was new again and was skipped
C34_Witness ==
    /\ lastScan.done
    /\ "u1" \in lastScan.new
    /\ "u1" \in lastScan.warned
    /\ InLedger(state, "u1")
    /\ queue = <<>>

---------------------------------------------------------------------------
(* The update feed and its anchor *)

\* message i of #trade-updates carries a link, is in the polled snapshot
\* and was posted after the stored anchor
PostedAfterAnchor(i) ==
    /\ Cursor(state) # NoneN
    /\ Cursor(state) < i
    /\ \E k \in 1..Len(feedU) : feedU[k].id = i /\ feedU[k].link # NoneS

\* an update-feed cycle runs to its end
UpdateCycleEnds ==
    \/ (check_trade_updates /\ pc' = "loop")
    \/ finish_update_batch

\* C36: while update-feed cycles keep running to their end, a link-bearing
\* message posted after the stored anchor does not stay visible and
\* unevaluated for ever: a later cycle goes through it and moves the cursor
\* to it or past it, whether or not the anchor message is still in the
\* snapshot.
C36_UpdatesEventuallyEvaluated ==
    ([]<><<UpdateCycleEnds>>_vars) =>
        \A i \in 1..MaxMsgs : PostedAfterAnchor(i) ~> ~PostedAfterAnchor(i)

\* the ids of the link-bearing messages that stand after the message with
\* id anchor in the feed
AfterAnchor(msgs, anchor) ==
    {msgs[b].id : b \in {k \in 1..Len(msgs) :
                           /\ msgs[k].link # NoneS
                           /\ \E a \in 1..(k - 1) : msgs[a].id = anchor}}

\* C35: once the cursor is set, check_trade_updates only moves it forward:
\* the id it is going to store is the id of a link-bearing message that
\* stands after the old anchor in the snapshot, the cursor gets no other
\* value, and a cycle whose snapshot has no link-bearing message after the
\* anchor leaves the cursor and the file as they were.
C35_CursorMovesForward ==
    [][/\ (check_trade_updates /\ Cursor(state) # NoneN) =>
            IF AfterAnchor(feedU, Cursor(state)) = {}
            THEN /\ pc' = "loop"
                 /\ Cursor(state') = Cursor(state)
                 /\ disk' = disk
            ELSE /\ pc' = "update_batch"
                 /\ pending_id' \in AfterAnchor(feedU, Cursor(state))
       /\ (Cursor(state) # NoneN /\ Cursor(state') # Cursor(state)) =>
            /\ pc = "update_batch"
            /\ Cursor(state') = pending_id
            /\ Cursor(state') > Cursor(state)]_vars

\* a batch has been gone through and the cursor is about to move from
\* message 1 to message 2
C35_Witness ==
    /\ pc = "update_batch"
    /\ queue = <<>>
    /\ Cursor(state) = 1
    /\ pending_id = 2
    /\ Len(feedU) = 2

\* C37: the first run of the update feed (no cursor stored yet) sets the
\* cursor to the id of the last message of the snapshot and saves it,
\* hands nothing to the handler and leaves active_trades and all_seen_urls
\* as they were; with an empty snapshot the cursor stays None and nothing is
\* written.
C37_FirstRunSetsCursor ==
    [][(check_trade_updates /\ Cursor(state) = NoneN) =>
          /\ pc' = "loop"
          /\ queue' = <<>>
          /\ last' = last
          /\ state'.active_trades = state.active_trades
          /\ state'.all_seen_urls = state.all_seen_urls
          /\ IF feedU = <<>>
             THEN Cursor(state') = NoneN /\ disk' = disk
             ELSE /\ Cursor(state') = feedU[Len(feedU)].id
                  /\ disk' = state']_vars

\* the first run met two messages, the older one with a link to a URL of
\* the ledger, and stored the id of the newer one
C37_Witness ==
    /\ pc = "loop"
    /\ Len(feedU) = 2
    /\ feedU[1].link = "u1"
    /\ InLedger(state, "u1")
    /\ Cursor(state) = 2
    /\ Cursor(disk) = 2

\* the positions of the snapshot that hold a link-bearing message after the
\* anchor whose URL has no ledger record
Unrecorded(msgs, anchor, st) ==
    {k \in 1..Len(msgs) : /\ msgs[k].id \in AfterAnchor(msgs, anchor)
                          /\ ~InLedger(st, msgs[k].link)}

\* C38: an update message that links to a URL without a ledger record is
\* not handed to the handler and creates no ledger record: the batch of an
\* update cycle holds only URLs of the ledger, every dispatch of the batch
\* is for a URL that had a record, and the keys of the ledger do not grow
\* during the batch.  The message is counted once as non-actionable, and
\* the cursor the cycle stores is its id or a later one, so that no later
\* cycle is offered it again.
C38_UnrecordedUpdateSkipped ==
    [][/\ (check_trade_updates /\ Cursor(state) # NoneN) =>
            LET x == extract_new_trade_updates(feedU, Cursor(state))
            IN  /\ \A i \in 1..Len(queue') : InLedger(state, queue'[i])
                /\ non_actionable_updates(x.urls, state)
                     = Cardinality(Unrecorded(feedU, Cursor(state), state))
                /\ \A k \in Unrecorded(feedU, Cursor(state), state) :
                     /\ pc' = "update_batch"
                     /\ feedU[k].id <= pending_id'
       /\ (pc = "update_batch" /\ last' # last /\ last'.url # NoneS) =>
            last'.before # NoneTD
       /\ pc = "update_batch" =>
            DOMAIN state'.active_trades \subseteq DOMAIN state.active_trades
       /\ finish_update_batch =>
            (Cursor(state') = pending_id /\ Cursor(disk') = pending_id)]_vars

\* an update cycle found only a message whose URL has no ledger record: the
\* batch is empty and the cursor is about to move to that message
C38_Witness ==
    /\ pc = "update_batch"
    /\ queue = <<>>
    /\ last = NoLast
    /\ ~InLedger(state, "u1")
    /\ Cursor(state) = 1
    /\ pending_id = 2
    /\ Len(feedU) = 2
    /\ feedU[2].link = "u1"

---------------------------------------------------------------------------
(* close_position and the position query *)

\* C39: hyperliquid_executor.close_position returns True only when the
\* position query was answered and gave no position or a flat one, or when
\* the market order that closes the position was submitted and accepted; a
\* position query that fails does not end in True.
C39_CloseReportsOnlyVerifiedSuccess ==
    (probe.fn = "close_position" /\ probe.venue = "hyperliquid"
       /\ probe.returned = "True") =>
        \/ (probe.answered /\ probe.position = 0)
        \/ ClosingOrders(probe.calls) # {}

---------------------------------------------------------------------------
(* The resting orders after an UPDATE *)

\* the positions of the calls that submit an entry order
EntryOrders(calls) == {i \in 1..Len(calls) : calls[i].op = "create_limit_order"}

\* C40: an UPDATE with entries for a trader with a client submits its new
\* entry orders only after every resting order of the symbol was cancelled:
\* when the open orders were fetched and all their cancels came back, one
\* cancel per resting order precedes the first entry order; when the fetch
\* or one of the cancels failed, no entry order is submitted.
C40_UpdateReplacesRestingOrders ==
    [][\A out \in VenueOutcomes :
          (/\ get_client_for_trader(TextFull.trader, clients)
           /\ handle(HandlerRecord(TextStop90), "UPDATE", out))
          => LET calls   == last'.calls
                 cancels == {i \in 1..Len(calls) : calls[i].op = "cancel_order"}
             IN  IF out.fetched /\ out.cancelled
                 THEN /\ Cardinality(cancels) = out.open
                      /\ \A i \in cancels, j \in EntryOrders(calls) : i < j
                 ELSE EntryOrders(calls) = {}]_vars

====
